---- MODULE Spec2Model ----
(***************************************************************************)
(* A model of the recs entity-component store: the entity handle          *)
(* (entity.rs), the per-type component pool (pool.rs), the type registry   *)
(* (component.rs) and the scene with its views (scene.rs).                 *)
(*                                                                         *)
(* Rust vectors are 0-based; a TLA+ sequence is 1-based, so the element    *)
(* at Rust index i is s[i + 1].  Slot indices, dense indices and type ids  *)
(* keep their Rust (0-based) values everywhere.                            *)
(***************************************************************************)
EXTENDS Integers, Sequences, FiniteSets, TLC

(***************************************************************************)
(* Bounds of the model.                                                    *)
(***************************************************************************)
\* create_entity appends a new slot only while the table has fewer slots.
MaxSlots == 2
\* Spec: destroy_entity runs on an index inside the table at most
\* MaxDestroys times; SpecView: at most MaxViewDestroys times.
MaxDestroys == 2
MaxViewDestroys == 1
\* Component types are the numbers 1..NumTypes (Rust TypeIds, abstractly);
\* Spec, which stores arbitrary values, uses the first NumPoolTypes of them.
NumTypes == 2
NumPoolTypes == 1
\* Component values are 0..MaxValue; 0 is Default::default().
MaxValue == 1
\* The type list of a view has at most MaxReq entries.
MaxReq == 2
\* At most MaxViews views are alive at a time.
MaxViews == 1
\* The slot-reuse scenario creates at most MaxN entities.
MaxN == 4
\* get_type_id is called by NumThreads threads, MaxCalls times each.
NumThreads == 3
MaxCalls == 2
\* A pool on its own is given entities with the indices 0 .. MaxIndex.
MaxIndex == 2
\* Two views side by side: NumCursors of them over lists of at most
\* MaxCursorReq types.
NumCursors == 2
MaxCursorReq == 1

\* u32::MAX, the index of an invalidated entity.  TLC's integers are 32-bit
\* signed, so the largest of them stands for 4294967295: all that is used of
\* it is that it is a u32 no table length and no reachable version attains.
U32Max == 2147483647

Types == 1 .. NumTypes
PoolTypes == 1 .. NumPoolTypes
Values == 0 .. MaxValue
DefaultValue == 0
ViewIds == 1 .. MaxViews
Threads == 1 .. NumThreads
CursorIds == 1 .. NumCursors

VARIABLES
    free_list,        \* Scene.free_list: Vec<u32>
    entities,         \* Scene.entities: Vec<EntityDescription>
    pools,            \* Scene.pools: type id -> Pool
    TYPE_ID_COUNTER,  \* component.rs: the next unused type id
    TYPE_ID_MAP,      \* component.rs: Rust type -> type id
    views,            \* the SceneViews borrowed from the scene
    ret,              \* the last call and what it returned
    panicked,         \* a call has panicked
    issued,           \* history: the handles create_entity has returned
    destroyed,        \* history: the handles that were live when destroyed
    scen,             \* position in the slot-reuse scenario
    threads,          \* the threads calling get_type_id: where each one is
    mutex,            \* the thread holding the lock of TYPE_ID_MAP, or 0
    returned,         \* history: << type, id >> for every get_type_id return
    the_pool          \* a Pool<T> used on its own

vars == << free_list, entities, pools, TYPE_ID_COUNTER, TYPE_ID_MAP, views,
           ret, panicked, issued, destroyed, scen, threads, mutex, returned,
           the_pool >>

\* What the scene's methods, called from one thread, leave alone.
aux == << threads, mutex, returned, the_pool >>

scene == << free_list, entities, pools >>

(***************************************************************************)
(* Vec and HashMap helpers.                                                *)
(***************************************************************************)
Last(s) == s[Len(s)]
Front(s) == SubSeq(s, 1, Len(s) - 1)
EmptyMap == [k \in {} |-> 0]
MapInsert(m, k, v) == [x \in DOMAIN m \cup {k} |-> IF x = k THEN v ELSE m[x]]
MapRemove(m, k) == [x \in DOMAIN m \ {k} |-> m[x]]
Range(f) == {f[x] : x \in DOMAIN f}

(***************************************************************************)
(* entity.rs                                                               *)
(***************************************************************************)
EntityNew(index) == [version |-> 0, index |-> index]

EntityWithVersion(index, version) == [version |-> version, index |-> index]

\* A bug: the index is set to the sentinel but the version is not bumped.
InvalidateKeepVersion(e) == [version |-> e.version, index |-> U32Max]

\* `self.version += 1` on a u32 (wrapping, as in a release build).
Invalidate(e) ==
    [version |-> IF e.version = U32Max THEN 0 ELSE e.version + 1, index |-> U32Max]

IsValid(e) == e.index # U32Max

(***************************************************************************)
(* scene.rs: EntityDescription                                             *)
(***************************************************************************)
EntityDescriptionNew(entity) == [entity |-> entity, components |-> {}]

\* A bug: the handle is invalidated but the component-id set is kept.
InvalidateEntityKeepComponents(ed) ==
    [entity |-> Invalidate(ed.entity), components |-> ed.components]

InvalidateEntity(ed) == [entity |-> Invalidate(ed.entity), components |-> {}]

\* A bug: only the index is compared, so a stale version passes.
CheckValidityIndexOnly(ed, entity) ==
    ed.entity.index = entity.index /\ IsValid(ed.entity)

CheckValidity(ed, entity) == ed.entity = entity /\ IsValid(ed.entity)

HasComponentWithTypeId(ed, type_id) == type_id \in ed.components

(***************************************************************************)
(* pool.rs.  A pool is [elem, entities, free_list, components]; elem is    *)
(* the Rust type the pool was created for (what a downcast checks).        *)
(***************************************************************************)
None == [tag |-> "None", val |-> 0]
Some(v) == [tag |-> "Some", val |-> v]

PoolNew(T) ==
    [elem |-> T, entities |-> EmptyMap, free_list |-> << >>, components |-> << >>]

PoolGet(p, entity) ==
    IF entity.index \in DOMAIN p.entities
    THEN Some(p.components[p.entities[entity.index] + 1])
    ELSE None

\* A bug: the free list is never popped, every value gets a new dense slot.
InsertNewComponentAlwaysPush(p, entity, new_component) ==
    [p EXCEPT !.components = Append(p.components, new_component),
              !.entities = MapInsert(p.entities, entity.index, Len(p.components))]

InsertNewComponent(p, entity, new_component) ==
    IF p.free_list = << >>
    THEN [p EXCEPT !.components = Append(p.components, new_component),
                   !.entities = MapInsert(p.entities, entity.index, Len(p.components))]
    ELSE LET index == Last(p.free_list) IN
         [p EXCEPT !.free_list = Front(p.free_list),
                   !.components = [p.components EXCEPT ![index + 1] = new_component],
                   !.entities = MapInsert(p.entities, entity.index, index)]

\* An occupied slot is left as it is: new_component is dropped.
PoolAssign(p, entity, new_component) ==
    IF PoolGet(p, entity).tag = "Some"
    THEN p
    ELSE InsertNewComponent(p, entity, new_component)

PoolAssignDefault(p, entity) ==
    IF PoolGet(p, entity).tag = "Some"
    THEN p
    ELSE InsertNewComponent(p, entity, DefaultValue)

\* A change of behaviour: removal compacts the dense array, shifting the
\* values behind the removed one (and their mappings) down by one.
PoolFreeCompact(p, entity) ==
    IF entity.index \in DOMAIN p.entities
    THEN LET d == p.entities[entity.index] IN
         [p EXCEPT !.components = SubSeq(p.components, 1, d)
                                     \o SubSeq(p.components, d + 2, Len(p.components)),
                   !.entities = [x \in DOMAIN p.entities \ {entity.index} |->
                                    IF p.entities[x] > d
                                    THEN p.entities[x] - 1 ELSE p.entities[x]]]
    ELSE p

\* A bug: the dense slot is released but the mapping is kept.
PoolFreeKeepMapping(p, entity) ==
    IF entity.index \in DOMAIN p.entities
    THEN [p EXCEPT !.free_list = Append(p.free_list, p.entities[entity.index])]
    ELSE p

PoolFree(p, entity) ==
    IF entity.index \in DOMAIN p.entities
    THEN [p EXCEPT !.free_list = Append(p.free_list, p.entities[entity.index]),
                   !.entities = MapRemove(p.entities, entity.index)]
    ELSE p

(***************************************************************************)
(* component.rs: the type registry.  A registry is [counter, map].         *)
(***************************************************************************)
Registry == [counter |-> TYPE_ID_COUNTER, map |-> TYPE_ID_MAP]

\* map.entry(type_id).or_insert_with(|| counter.fetch_add(1))
RegAfterGetTypeId(reg, T) ==
    IF T \in DOMAIN reg.map
    THEN reg
    ELSE [counter |-> reg.counter + 1, map |-> MapInsert(reg.map, T, reg.counter)]

GetTypeId(reg, T) == RegAfterGetTypeId(reg, T).map[T]

RECURSIVE RegAfterRequired(_, _)
RegAfterRequired(reg, R) ==
    IF R = << >> THEN reg
    ELSE RegAfterRequired(RegAfterGetTypeId(reg, Head(R)), Tail(R))

\* (Head, Tail): the id of Head, then the ids of Tail.
RECURSIVE RequiredComponentIds(_, _)
RequiredComponentIds(reg, R) ==
    IF R = << >> THEN << >>
    ELSE << GetTypeId(reg, Head(R)) >>
         \o RequiredComponentIds(RegAfterGetTypeId(reg, Head(R)), Tail(R))

(***************************************************************************)
(* scene.rs: Scene                                                         *)
(***************************************************************************)
NoEntity == [version |-> 0, index |-> U32Max]

\* Handles no create_entity returned (Entity::new and Entity::with_version
\* are public): an index one past the table, the sentinel index, and for
\* slot 0 a version above every version the model reaches.
Forged ==
    {EntityNew(Len(entities)), NoEntity,
     EntityWithVersion(0, MaxDestroys + MaxViewDestroys + 1)}

\* The handles a caller passes: those create_entity has returned (live,
\* destroyed or stale) and the forged ones.
Handles == issued \cup Forged

InRange(entity) == entity.index < Len(entities)

AssertEntityValid(entity) ==
    InRange(entity) /\ CheckValidity(entities[entity.index + 1], entity)

GetValidEntityDescriptionMut(entity) ==
    InRange(entity) /\ CheckValidity(entities[entity.index + 1], entity)

\* pools.get(&get_type_id::<T>()).and_then(downcast)
GetPoolIfExists(reg, T) ==
    LET id == GetTypeId(reg, T) IN
    IF id \in DOMAIN pools /\ pools[id].elem = T THEN Some(id) ELSE None

\* A bug: the free list is never consulted, every entity gets a new slot.
CreateEntityAlwaysAppend(fl, ents) ==
    [entity |-> EntityNew(Len(ents)), free_list |-> fl,
     entities |-> Append(ents, EntityDescriptionNew(EntityNew(Len(ents))))]

\* create_entity on free list fl and slot table ents: the handle returned
\* and the two vectors afterwards.
CreateEntityResult(fl, ents) ==
    IF fl = << >>
    THEN [entity |-> EntityNew(Len(ents)), free_list |-> fl,
          entities |-> Append(ents, EntityDescriptionNew(EntityNew(Len(ents))))]
    ELSE LET index == Last(fl)
             entity == EntityWithVersion(index, ents[index + 1].entity.version)
         IN [entity |-> entity, free_list |-> Front(fl),
             entities |-> [ents EXCEPT ![index + 1] = EntityDescriptionNew(entity)]]

\* destroy_entity with an index inside the table.
DestroyEntityResult(fl, ents, entity) ==
    [free_list |-> Append(fl, entity.index),
     entities |-> [ents EXCEPT ![entity.index + 1] = InvalidateEntity(@)]]

Call(op, e, t, v, tag, val, had) ==
    [op |-> op, e |-> e, t |-> t, v |-> v, tag |-> tag, val |-> val, had |-> had]

NoView ==
    [alive |-> FALSE, required_components |-> << >>, index |-> 0,
     out |-> << >>, done |-> FALSE]

\* A view borrows the scene: no &mut self method can run while one is alive.
NoViewAlive == \A k \in DOMAIN views : ~views[k].alive

\* A thread that is not inside get_type_id.
IdleThread ==
    [pc |-> "idle", type_id |-> 0, id |-> 0, began_absent |-> FALSE,
     allocated |-> FALSE, calls |-> 0]

\* No thread has called get_type_id; the lone pool is Pool::new().
AuxInit ==
    /\ threads = [th \in Threads |-> IdleThread]
    /\ mutex = 0
    /\ returned = {}
    /\ the_pool = PoolNew(1)

Init ==
    /\ free_list = << >>
    /\ entities = << >>
    /\ pools = EmptyMap
    /\ TYPE_ID_COUNTER = 0
    /\ TYPE_ID_MAP = EmptyMap
    /\ views = [k \in ViewIds |-> NoView]
    /\ ret = Call("new", NoEntity, 0, 0, "Unit", 0, FALSE)
    /\ panicked = FALSE
    /\ issued = {}
    /\ destroyed = {}
    /\ scen = [phase |-> "off", n |-> 0, m |-> 0, d |-> 0, r |-> 0]
    /\ AuxInit

CreateEntityOp ==
    LET res == CreateEntityResult(free_list, entities) IN
    /\ free_list' = res.free_list
    /\ entities' = res.entities
    /\ ret' = Call("create_entity", res.entity, 0, 0, "Entity", 0, FALSE)
    /\ issued' = issued \cup {res.entity}
    /\ UNCHANGED << pools, TYPE_ID_COUNTER, TYPE_ID_MAP, views, panicked, destroyed >>

CreateEntity ==
    /\ ~panicked
    /\ NoViewAlive
    /\ free_list # << >> \/ Len(entities) < MaxSlots
    /\ CreateEntityOp
    /\ UNCHANGED << scen, aux >>

\* A change of behaviour: the destroyed entity's values are freed in every
\* pool at once.
DestroyEntityEagerOp(entity) ==
    IF InRange(entity)
    THEN LET res == DestroyEntityResult(free_list, entities, entity) IN
         /\ free_list' = res.free_list
         /\ entities' = res.entities
         /\ pools' = [id \in DOMAIN pools |-> PoolFree(pools[id], entity)]
         /\ ret' = Call("destroy_entity", entity, 0, 0, "Unit", 0, FALSE)
         /\ destroyed' = IF AssertEntityValid(entity)
                         THEN destroyed \cup {entity} ELSE destroyed
         /\ UNCHANGED << TYPE_ID_COUNTER, TYPE_ID_MAP, views, panicked, issued >>
    ELSE /\ panicked' = TRUE
         /\ ret' = Call("destroy_entity", entity, 0, 0, "panic", 0, FALSE)
         /\ UNCHANGED << free_list, entities, pools, TYPE_ID_COUNTER, TYPE_ID_MAP,
                         views, issued, destroyed >>

\* self.entities[index as usize] panics when the index is outside the table.
DestroyEntityOp(entity) ==
    IF InRange(entity)
    THEN LET res == DestroyEntityResult(free_list, entities, entity) IN
         /\ free_list' = res.free_list
         /\ entities' = res.entities
         /\ ret' = Call("destroy_entity", entity, 0, 0, "Unit", 0, FALSE)
         /\ destroyed' = IF AssertEntityValid(entity)
                         THEN destroyed \cup {entity} ELSE destroyed
         /\ UNCHANGED << pools, TYPE_ID_COUNTER, TYPE_ID_MAP, views, panicked, issued >>
    ELSE /\ panicked' = TRUE
         /\ ret' = Call("destroy_entity", entity, 0, 0, "panic", 0, FALSE)
         /\ UNCHANGED << free_list, entities, pools, TYPE_ID_COUNTER, TYPE_ID_MAP,
                         views, issued, destroyed >>

DestroyEntity(entity) ==
    /\ ~panicked
    /\ NoViewAlive
    /\ DestroyEntityOp(entity)
    /\ UNCHANGED << scen, aux >>

\* Every destroy_entity on an index inside the table bumps one version.
RECURSIVE SumVersions(_)
SumVersions(ents) ==
    IF ents = << >> THEN 0 ELSE Head(ents).entity.version + SumVersions(Tail(ents))

DestroysLeft(max) == SumVersions(entities) < max

\* entity_description.components.insert(get_type_id::<T>())
InsertComponentId(ents, entity, id) ==
    [ents EXCEPT ![entity.index + 1].components = @ \cup {id}]

RemoveComponentId(ents, entity, id) ==
    [ents EXCEPT ![entity.index + 1].components = @ \ {id}]

\* pools.entry(type_id).or_insert_with(|| Box::new(Pool::<T>::new()))
PoolsWithEntry(ps, id, T) ==
    IF id \in DOMAIN ps THEN ps ELSE MapInsert(ps, id, PoolNew(T))

\* The pool after pool.assign(entity, v) (op "assign") or after
\* pool.assign_default(entity) (op "assign_default").
PoolAfter(op, p, entity, v) ==
    IF op = "assign" THEN PoolAssign(p, entity, v) ELSE PoolAssignDefault(p, entity)

\* Scene::assign and Scene::assign_default, which differ in the pool method
\* only.
AssignWith(op, entity, T, v) ==
    IF ~GetValidEntityDescriptionMut(entity)
    THEN /\ ret' = Call(op, entity, T, v, "InvalidEntityError", 0, FALSE)
         /\ UNCHANGED << free_list, entities, pools, TYPE_ID_COUNTER, TYPE_ID_MAP >>
    ELSE LET reg == RegAfterGetTypeId(Registry, T)
             id == reg.map[T]
             ps == PoolsWithEntry(pools, id, T)
         IN /\ TYPE_ID_COUNTER' = reg.counter
            /\ TYPE_ID_MAP' = reg.map
            /\ entities' = InsertComponentId(entities, entity, id)
            /\ free_list' = free_list
            /\ IF ps[id].elem = T
               THEN /\ pools' = [ps EXCEPT ![id] = PoolAfter(op, @, entity, v)]
                    /\ ret' = Call(op, entity, T, v, "Some",
                                   PoolGet(PoolAfter(op, ps[id], entity, v), entity).val,
                                   id \in entities[entity.index + 1].components)
               ELSE /\ pools' = ps
                    /\ ret' = Call(op, entity, T, v, "PoolAccessOrCreationError", 0,
                                   id \in entities[entity.index + 1].components)

Assign(entity, T, new_component) ==
    /\ ~panicked
    /\ NoViewAlive
    /\ AssignWith("assign", entity, T, new_component)
    /\ UNCHANGED << views, panicked, issued, destroyed, scen, aux >>

AssignDefault(entity, T) ==
    /\ ~panicked
    /\ NoViewAlive
    /\ AssignWith("assign_default", entity, T, DefaultValue)
    /\ UNCHANGED << views, panicked, issued, destroyed, scen, aux >>

Remove(entity, T) ==
    /\ ~panicked
    /\ NoViewAlive
    /\ IF ~GetValidEntityDescriptionMut(entity)
       THEN /\ ret' = Call("remove", entity, T, 0, "InvalidEntityError", 0, FALSE)
            /\ UNCHANGED << entities, pools, TYPE_ID_COUNTER, TYPE_ID_MAP >>
       ELSE LET reg == RegAfterGetTypeId(Registry, T)
                id == reg.map[T]
                pool == GetPoolIfExists(reg, T)
            IN /\ TYPE_ID_COUNTER' = reg.counter
               /\ TYPE_ID_MAP' = reg.map
               /\ entities' = RemoveComponentId(entities, entity, id)
               /\ pools' = IF pool.tag = "Some"
                           THEN [pools EXCEPT ![id] = PoolFree(@, entity)]
                           ELSE pools
               /\ ret' = Call("remove", entity, T, 0, "Unit", 0,
                              id \in entities[entity.index + 1].components)
    /\ UNCHANGED << free_list, views, panicked, issued, destroyed, scen, aux >>

\* What get::<T>(entity) returns in the current state.
GetResult(T, entity) ==
    IF ~AssertEntityValid(entity)
    THEN [tag |-> "InvalidEntityError", val |-> 0]
    ELSE LET pool == GetPoolIfExists(Registry, T) IN
         IF pool.tag = "Some" THEN PoolGet(pools[pool.val], entity) ELSE None

Get(entity, T) ==
    /\ ~panicked
    /\ LET res == GetResult(T, entity) IN
       /\ ret' = Call("get", entity, T, 0, res.tag, res.val, FALSE)
       /\ IF res.tag = "InvalidEntityError"
          THEN UNCHANGED << TYPE_ID_COUNTER, TYPE_ID_MAP >>
          ELSE LET reg == RegAfterGetTypeId(Registry, T) IN
               /\ TYPE_ID_COUNTER' = reg.counter
               /\ TYPE_ID_MAP' = reg.map
    /\ UNCHANGED << free_list, entities, pools, views, panicked, issued, destroyed, scen, aux >>

\* get_mut hands out `&mut T`; the caller stores w through it (w equal to
\* the value found is a caller that only reads).
GetMut(entity, T, w) ==
    /\ ~panicked
    /\ NoViewAlive
    /\ IF ~AssertEntityValid(entity)
       THEN /\ ret' = Call("get_mut", entity, T, w, "InvalidEntityError", 0, FALSE)
            /\ UNCHANGED << pools, TYPE_ID_COUNTER, TYPE_ID_MAP >>
       ELSE LET reg == RegAfterGetTypeId(Registry, T)
                pool == GetPoolIfExists(reg, T)
                found == IF pool.tag = "Some"
                         THEN PoolGet(pools[pool.val], entity) ELSE None
            IN /\ TYPE_ID_COUNTER' = reg.counter
               /\ TYPE_ID_MAP' = reg.map
               /\ ret' = Call("get_mut", entity, T, w, found.tag, found.val, FALSE)
               /\ pools' = IF found.tag = "Some"
                           THEN [pools EXCEPT ![pool.val].components[
                                     pools[pool.val].entities[entity.index] + 1] = w]
                           ELSE pools
    /\ UNCHANGED << free_list, entities, views, panicked, issued, destroyed, scen, aux >>

(***************************************************************************)
(* scene.rs: SceneView.  A view is [alive, required_components, index]     *)
(* with two history fields: out, the handles next() has yielded so far,    *)
(* and done, whether next() has returned None.                             *)
(***************************************************************************)
\* The type lists a view is asked for: (), (A, ()), (A, (B, ())), ...
TypeLists == UNION {[1 .. n -> Types] : n \in 0 .. MaxReq}

\* A bug: only the first required id is looked up.
EntityHasFirstRequiredComponent(required_components, entity_description) ==
    \/ required_components = << >>
    \/ HasComponentWithTypeId(entity_description, required_components[1])

EntityHasRequiredComponents(required_components, entity_description) ==
    \A k \in 1 .. Len(required_components) :
        HasComponentWithTypeId(entity_description, required_components[k])

\* A bug: the is_valid test of next() is left out.
QualifiesIgnoringValidity(required_components, entity_description) ==
    EntityHasRequiredComponents(required_components, entity_description)

\* The test of next() on one slot.
Qualifies(required_components, entity_description) ==
    /\ EntityHasRequiredComponents(required_components, entity_description)
    /\ IsValid(entity_description.entity)

\* The while loop of next(): the first index from `index` on whose slot
\* qualifies, or the table length when there is none.
RECURSIVE Scan(_, _, _)
Scan(ents, required_components, index) ==
    IF index < Len(ents)
    THEN IF Qualifies(required_components, ents[index + 1])
         THEN index
         ELSE Scan(ents, required_components, index + 1)
    ELSE index

\* A bug: the cursor stops on the slot it yields instead of behind it.
SceneViewNextStuck(ents, view) ==
    LET hit == Scan(ents, view.required_components, view.index) IN
    IF hit < Len(ents)
    THEN [index |-> hit, tag |-> "Some", item |-> ents[hit + 1].entity]
    ELSE [index |-> hit, tag |-> "None", item |-> NoEntity]

\* next(): the cursor afterwards and the item returned.
SceneViewNext(ents, view) ==
    LET hit == Scan(ents, view.required_components, view.index) IN
    IF hit < Len(ents)
    THEN [index |-> hit + 1, tag |-> "Some", item |-> ents[hit + 1].entity]
    ELSE [index |-> hit, tag |-> "None", item |-> NoEntity]

\* Scene::view::<R>(): the ids are collected once, the cursor starts at 0.
View(k, R) ==
    /\ ~panicked
    /\ ~views[k].alive
    /\ LET reg == RegAfterRequired(Registry, R) IN
       /\ TYPE_ID_COUNTER' = reg.counter
       /\ TYPE_ID_MAP' = reg.map
       /\ views' = [views EXCEPT ![k] =
                       [alive |-> TRUE,
                        required_components |-> RequiredComponentIds(Registry, R),
                        index |-> 0, out |-> << >>, done |-> FALSE]]
    /\ ret' = Call("view", NoEntity, 0, 0, "Unit", 0, FALSE)
    /\ UNCHANGED << free_list, entities, pools, panicked, issued, destroyed, scen, aux >>

ViewNext(k) ==
    /\ ~panicked
    /\ views[k].alive
    /\ LET res == SceneViewNext(entities, views[k]) IN
       /\ views' = [views EXCEPT ![k].index = res.index,
                                 ![k].out = IF res.tag = "Some"
                                            THEN Append(@, res.item) ELSE @,
                                 ![k].done = (res.tag = "None")]
       /\ ret' = Call("next", res.item, 0, 0, res.tag, 0, FALSE)
    /\ UNCHANGED << free_list, entities, pools, TYPE_ID_COUNTER, TYPE_ID_MAP,
                    panicked, issued, destroyed, scen, aux >>

\* The view goes out of scope.
ViewDrop(k) ==
    /\ ~panicked
    /\ views[k].alive
    /\ views' = [views EXCEPT ![k] = NoView]
    /\ ret' = Call("drop", NoEntity, 0, 0, "Unit", 0, FALSE)
    /\ UNCHANGED << free_list, entities, pools, TYPE_ID_COUNTER, TYPE_ID_MAP,
                    panicked, issued, destroyed, scen, aux >>

Next ==
    \/ CreateEntity
    \/ \E entity \in Handles : DestroysLeft(MaxDestroys) /\ DestroyEntity(entity)
    \/ \E entity \in Handles, T \in PoolTypes, v \in Values : Assign(entity, T, v)
    \/ \E entity \in Handles, T \in PoolTypes : AssignDefault(entity, T)
    \/ \E entity \in Handles, T \in PoolTypes : Remove(entity, T)
    \/ \E entity \in Handles, T \in PoolTypes : Get(entity, T)
    \/ \E entity \in Handles, T \in PoolTypes, w \in Values : GetMut(entity, T, w)

Spec == Init /\ [][Next]_vars

\* The scene with its views: every type, default values only, and the
\* handles create_entity has returned (live, destroyed or stale).
NextView ==
    \/ CreateEntity
    \/ \E entity \in issued : DestroysLeft(MaxViewDestroys) /\ DestroyEntity(entity)
    \/ \E entity \in issued, T \in Types : AssignDefault(entity, T)
    \/ \E entity \in issued, T \in Types : Remove(entity, T)
    \/ \E k \in ViewIds, R \in TypeLists : View(k, R)
    \/ \E k \in ViewIds : ViewNext(k)
    \/ \E k \in ViewIds : ViewDrop(k)

SpecView == Init /\ [][NextView]_vars

(***************************************************************************)
(* The slot-reuse scenario: from an empty scene create n entities, destroy *)
(* m < n of the live ones, create m more.                                  *)
(***************************************************************************)
InitReuse ==
    /\ free_list = << >>
    /\ entities = << >>
    /\ pools = EmptyMap
    /\ TYPE_ID_COUNTER = 0
    /\ TYPE_ID_MAP = EmptyMap
    /\ views = [k \in ViewIds |-> NoView]
    /\ ret = Call("new", NoEntity, 0, 0, "Unit", 0, FALSE)
    /\ panicked = FALSE
    /\ issued = {}
    /\ destroyed = {}
    /\ scen = [phase |-> "create", n |-> 0, m |-> 0, d |-> 0, r |-> 0]
    /\ AuxInit

ReuseCreate ==
    /\ scen.phase = "create"
    /\ scen.n < MaxN
    /\ CreateEntityOp
    /\ scen' = [scen EXCEPT !.n = @ + 1]
    /\ UNCHANGED aux

\* The creating stops and m < n is fixed.
ReuseChoose(m) ==
    /\ scen.phase = "create"
    /\ m < scen.n
    /\ scen' = [scen EXCEPT !.phase = "destroy", !.m = m]
    /\ UNCHANGED << free_list, entities, pools, TYPE_ID_COUNTER, TYPE_ID_MAP,
                    views, ret, panicked, issued, destroyed, aux >>

ReuseDestroy(entity) ==
    /\ scen.phase = "destroy"
    /\ scen.d < scen.m
    /\ AssertEntityValid(entity)
    /\ DestroyEntityOp(entity)
    /\ scen' = [scen EXCEPT !.d = @ + 1]
    /\ UNCHANGED aux

ReuseRecreate ==
    /\ scen.phase = "destroy"
    /\ scen.d = scen.m
    /\ scen.r < scen.m
    /\ CreateEntityOp
    /\ scen' = [scen EXCEPT !.r = @ + 1]
    /\ UNCHANGED aux

ReuseDone == scen.phase = "destroy" /\ scen.d = scen.m /\ scen.r = scen.m

NextReuse ==
    \/ ReuseCreate
    \/ \E m \in 0 .. MaxN : ReuseChoose(m)
    \/ \E entity \in issued : ReuseDestroy(entity)
    \/ ReuseRecreate

SpecReuse == InitReuse /\ [][NextReuse]_vars

(***************************************************************************)
(* scene.rs: several views of one scene side by side.  The views borrow    *)
(* the scene, so it is not mutated while one of them is alive.             *)
(***************************************************************************)
CursorLists == UNION {[1 .. n -> PoolTypes] : n \in 0 .. MaxCursorReq}

InitCursor ==
    /\ free_list = << >>
    /\ entities = << >>
    /\ pools = EmptyMap
    /\ TYPE_ID_COUNTER = 0
    /\ TYPE_ID_MAP = EmptyMap
    /\ views = [k \in CursorIds |-> NoView]
    /\ ret = Call("new", NoEntity, 0, 0, "Unit", 0, FALSE)
    /\ panicked = FALSE
    /\ issued = {}
    /\ destroyed = {}
    /\ scen = [phase |-> "off", n |-> 0, m |-> 0, d |-> 0, r |-> 0]
    /\ AuxInit

NextCursor ==
    \/ CreateEntity
    \/ \E entity \in issued : DestroysLeft(MaxViewDestroys) /\ DestroyEntity(entity)
    \/ \E entity \in issued, T \in PoolTypes : AssignDefault(entity, T)
    \/ \E k \in CursorIds, R \in CursorLists : View(k, R)
    \/ \E k \in CursorIds : ViewNext(k)
    \/ \E k \in CursorIds : ViewDrop(k)

SpecCursor == InitCursor /\ [][NextCursor]_vars

(***************************************************************************)
(* component.rs: get_type_id called from several threads.  A thread is     *)
(* [pc, type_id, id, calls] with two history fields: began_absent, the     *)
(* type had no id when the call began, and allocated, the call ran the     *)
(* closure of or_insert_with.                                              *)
(***************************************************************************)
SceneVars ==
    << free_list, entities, pools, views, ret, panicked, issued, destroyed, scen >>

\* A bug: the map is used without taking its lock.
MutexIgnored == TRUE

\* TYPE_ID_MAP.lock() returns once no thread holds the guard.
MutexFree == mutex = 0

\* get_type_id::<T>() is entered: let type_id = TypeId::of::<T>().
GetTypeIdCall(th, T) ==
    /\ threads[th].pc = "idle"
    /\ threads[th].calls < MaxCalls
    /\ threads' = [threads EXCEPT ![th].pc = "lock",
                                  ![th].type_id = T,
                                  ![th].began_absent = T \notin DOMAIN TYPE_ID_MAP,
                                  ![th].allocated = FALSE]
    /\ UNCHANGED << SceneVars, TYPE_ID_COUNTER, TYPE_ID_MAP, mutex, returned, the_pool >>

\* let mut map = TYPE_ID_MAP.lock().unwrap()
Lock(th) ==
    /\ threads[th].pc = "lock"
    /\ MutexFree
    /\ mutex' = th
    /\ threads' = [threads EXCEPT ![th].pc = "entry"]
    /\ UNCHANGED << SceneVars, TYPE_ID_COUNTER, TYPE_ID_MAP, returned, the_pool >>

\* map.entry(type_id): an occupied entry gives its id; for a vacant one
\* the closure runs TYPE_ID_COUNTER.fetch_add(1, Relaxed).
Entry(th) ==
    /\ threads[th].pc = "entry"
    /\ IF threads[th].type_id \in DOMAIN TYPE_ID_MAP
       THEN /\ threads' = [threads EXCEPT ![th].pc = "return",
                                          ![th].id = TYPE_ID_MAP[threads[th].type_id]]
            /\ UNCHANGED TYPE_ID_COUNTER
       ELSE /\ threads' = [threads EXCEPT ![th].pc = "insert",
                                          ![th].id = TYPE_ID_COUNTER,
                                          ![th].allocated = TRUE]
            /\ TYPE_ID_COUNTER' = TYPE_ID_COUNTER + 1
    /\ UNCHANGED << SceneVars, TYPE_ID_MAP, mutex, returned, the_pool >>

\* or_insert_with stores what the closure returned in the vacant entry.
Insert(th) ==
    /\ threads[th].pc = "insert"
    /\ TYPE_ID_MAP' = MapInsert(TYPE_ID_MAP, threads[th].type_id, threads[th].id)
    /\ threads' = [threads EXCEPT ![th].pc = "return"]
    /\ UNCHANGED << SceneVars, TYPE_ID_COUNTER, mutex, returned, the_pool >>

\* The id is returned and the guard dropped.
Return(th) ==
    /\ threads[th].pc = "return"
    /\ returned' = returned \cup {<< threads[th].type_id, threads[th].id >>}
    /\ mutex' = 0
    /\ threads' = [threads EXCEPT ![th].pc = "idle", ![th].calls = @ + 1]
    /\ UNCHANGED << SceneVars, TYPE_ID_COUNTER, TYPE_ID_MAP, the_pool >>

NextRegistry ==
    \/ \E th \in Threads, T \in Types : GetTypeIdCall(th, T)
    \/ \E th \in Threads : Lock(th)
    \/ \E th \in Threads : Entry(th)
    \/ \E th \in Threads : Insert(th)
    \/ \E th \in Threads : Return(th)

SpecRegistry == Init /\ [][NextRegistry]_vars

(***************************************************************************)
(* pool.rs: a Pool<T> used on its own.  The pool reads the index of the    *)
(* entity it is given and nothing else.                                    *)
(***************************************************************************)
PoolEntities ==
    {EntityNew(i) : i \in 0 .. MaxIndex} \cup {EntityWithVersion(0, 1)}

\* What the pool's methods leave alone.
NotThePool ==
    << free_list, entities, pools, TYPE_ID_COUNTER, TYPE_ID_MAP, views, panicked,
       issued, destroyed, scen, threads, mutex, returned >>

PoolAssignOp(entity, new_component) ==
    /\ the_pool' = PoolAssign(the_pool, entity, new_component)
    /\ ret' = Call("Pool::assign", entity, the_pool.elem, new_component, "Some",
                   PoolGet(PoolAssign(the_pool, entity, new_component), entity).val,
                   PoolGet(the_pool, entity).tag = "Some")
    /\ UNCHANGED NotThePool

PoolAssignDefaultOp(entity) ==
    /\ the_pool' = PoolAssignDefault(the_pool, entity)
    /\ ret' = Call("Pool::assign_default", entity, the_pool.elem, DefaultValue, "Some",
                   PoolGet(PoolAssignDefault(the_pool, entity), entity).val,
                   PoolGet(the_pool, entity).tag = "Some")
    /\ UNCHANGED NotThePool

PoolFreeOp(entity) ==
    /\ the_pool' = PoolFree(the_pool, entity)
    /\ ret' = Call("Pool::free", entity, the_pool.elem, 0, "Unit", 0,
                   PoolGet(the_pool, entity).tag = "Some")
    /\ UNCHANGED NotThePool

PoolGetOp(entity) ==
    /\ ret' = Call("Pool::get", entity, the_pool.elem, 0,
                   PoolGet(the_pool, entity).tag, PoolGet(the_pool, entity).val,
                   PoolGet(the_pool, entity).tag = "Some")
    /\ UNCHANGED << the_pool, NotThePool >>

\* get_mut hands out `&mut T`; the caller stores w through it.
PoolGetMutOp(entity, w) ==
    /\ the_pool' = IF entity.index \in DOMAIN the_pool.entities
                   THEN [the_pool EXCEPT
                            !.components[the_pool.entities[entity.index] + 1] = w]
                   ELSE the_pool
    /\ ret' = Call("Pool::get_mut", entity, the_pool.elem, w,
                   PoolGet(the_pool, entity).tag, PoolGet(the_pool, entity).val,
                   PoolGet(the_pool, entity).tag = "Some")
    /\ UNCHANGED NotThePool

NextPool ==
    \/ \E entity \in PoolEntities, v \in Values : PoolAssignOp(entity, v)
    \/ \E entity \in PoolEntities : PoolAssignDefaultOp(entity)
    \/ \E entity \in PoolEntities : PoolFreeOp(entity)
    \/ \E entity \in PoolEntities : PoolGetOp(entity)
    \/ \E entity \in PoolEntities, w \in Values : PoolGetMutOp(entity, w)

SpecPool == Init /\ [][NextPool]_vars

(***************************************************************************)
(* The claims.                                                             *)
(***************************************************************************)
EntityOps == {"get", "get_mut", "assign", "assign_default", "remove"}

InvalidEntityError == [tag |-> "InvalidEntityError", val |-> 0]

\* C1: a successful assign::<T>(e, v) immediately followed by get::<T>(e)
\* returns Ok(Some(v)), whatever was assigned to e's slot before.
C1_AssignThenGet ==
    (ret.op = "assign" /\ ret.tag = "Some")
        => GetResult(ret.t, ret.e) = Some(ret.v)

\* C2: once destroy_entity(e) has run on a live handle e, get, get_mut,
\* assign, assign_default and remove with e return InvalidEntityError in
\* every later state, also after e's slot has been recycled.
C2_DestroyedStaysInvalid ==
    /\ \A e \in destroyed :
          /\ ~AssertEntityValid(e)
          /\ ~GetValidEntityDescriptionMut(e)
          /\ \A T \in PoolTypes : GetResult(T, e) = InvalidEntityError
    /\ (ret.op \in EntityOps /\ ret.e \in destroyed)
          => ret.tag = "InvalidEntityError"

\* An operation was refused for a destroyed handle whose slot is live again.
C2_Witness ==
    /\ ret.op \in EntityOps
    /\ ret.e \in destroyed
    /\ ret.tag = "InvalidEntityError"
    /\ IsValid(entities[ret.e.index + 1].entity)

\* C3: with a non-empty free list create_entity returns the most recently
\* freed index with a generation above that of every handle issued before
\* for the slot and equal to the slot's stored generation; with an empty
\* free list it appends a slot and returns it with generation 0.
C3_CreateEntityFresh ==
    [][ret'.op = "create_entity" =>
          IF free_list # << >>
          THEN /\ ret'.e.index = Last(free_list)
               /\ \A h \in issued :
                     h.index = ret'.e.index => h.version < ret'.e.version
               /\ entities'[ret'.e.index + 1].entity.version = ret'.e.version
               /\ Len(entities') = Len(entities)
          ELSE /\ entities' = Append(entities, EntityDescriptionNew(ret'.e))
               /\ ret'.e = [version |-> 0, index |-> Len(entities)]]_vars

\* The slot indices a view over the ids `required` has to yield: the live
\* slots whose component-id set holds every one of them.
Matching(required) ==
    {i \in 0 .. Len(entities) - 1 :
        /\ entities[i + 1].entity.index # U32Max
        /\ Range(required) \subseteq entities[i + 1].components}

\* C4: a view iterated to its end has yielded every live entity whose
\* component-id set holds all required identifiers, each once, nothing
\* else, and in strictly increasing slot order; with no required type it
\* has yielded every live entity.
C4_ViewYieldsMatching ==
    \A k \in ViewIds :
        (views[k].alive /\ views[k].done) =>
            LET out == views[k].out
                want == Matching(views[k].required_components)
            IN /\ {out[j].index : j \in 1 .. Len(out)} = want
               /\ Len(out) = Cardinality(want)
               /\ \A j \in 1 .. Len(out) : out[j] = entities[out[j].index + 1].entity
               /\ \A j \in 1 .. Len(out) - 1 : out[j].index < out[j + 1].index
               /\ views[k].required_components = << >>
                     => Len(out) = Cardinality({i \in 1 .. Len(entities) :
                                                   IsValid(entities[i].entity)})

\* A view over two required types has run to its end over two slots,
\* yielding the second slot and skipping the first.
C4_Witness ==
    \E k \in ViewIds :
        /\ views[k].alive /\ views[k].done
        /\ Len(views[k].required_components) = 2
        /\ Len(entities) = 2
        /\ Len(views[k].out) = 1
        /\ views[k].out[1].index = 1

\* C5: assign::<T>(e, v2) on a live e that already holds a T overwrites in
\* place: e has one T value, it equals v2, and T's dense array has not
\* grown.
C5_AssignOverwrites ==
    [][(ret'.op = "assign" /\ ret'.tag = "Some" /\ ret'.had) =>
          LET id == TYPE_ID_MAP'[ret'.t] IN
          /\ ret'.e.index \in DOMAIN pools'[id].entities
          /\ pools'[id].components[pools'[id].entities[ret'.e.index] + 1] = ret'.v
          /\ Len(pools'[id].components) = Len(pools[id].components)]_vars

\* What the validity check is documented to refuse: an index outside the
\* slot table, the sentinel index, a generation other than the slot's.
HandleRefused(e) ==
    \/ e.index >= Len(entities)
    \/ e.index = U32Max
    \/ entities[e.index + 1].entity.version # e.version

\* C6: assign, assign_default, remove, get and get_mut return
\* InvalidEntityError for every such handle, and a call that returns
\* InvalidEntityError leaves entity records, component-id sets, the scene
\* free list and every pool as they were.
C6_InvalidEntityNoChange ==
    [][ret'.op \in EntityOps =>
          /\ HandleRefused(ret'.e) => ret'.tag = "InvalidEntityError"
          /\ ret'.tag = "InvalidEntityError"
                => UNCHANGED << entities, free_list, pools >>]_vars

\* A stale generation of a slot that is live again and holds a component
\* was refused.
C6_Witness ==
    /\ ret.op \in {"assign", "assign_default", "remove", "get_mut"}
    /\ ret.tag = "InvalidEntityError"
    /\ ret.e.index < Len(entities)
    /\ IsValid(entities[ret.e.index + 1].entity)
    /\ entities[ret.e.index + 1].entity.version # ret.e.version
    /\ entities[ret.e.index + 1].components # {}

\* C7: no public Scene operation panics, whatever handle it is given.
C7_NoPanic == ~panicked

\* C8: remove::<T>(e) on a live e whose component-id set lacks T returns
\* Ok(()) and changes nothing: entity records, scene free list, pools and
\* what get returns for e.
C8_RemoveAbsentNoOp ==
    [][\A e \in Handles, T \in PoolTypes :
          (ret'.op = "remove" /\ ret'.e = e /\ ret'.t = T
              /\ AssertEntityValid(e) /\ ~ret'.had) =>
              /\ ret'.tag = "Unit"
              /\ UNCHANGED << entities, free_list, pools >>
              /\ \A U \in PoolTypes : GetResult(U, e)' = GetResult(U, e)]_vars

\* Everything a fresh view over the ids `required` yields when it is
\* iterated from slot `index` to its end.
RECURSIVE Collect(_, _)
Collect(required, index) ==
    LET res == SceneViewNext(entities,
                             [required_components |-> required, index |-> index])
    IN IF res.tag = "None" THEN {}
       ELSE {res.item} \cup Collect(required, res.index)

\* What view::<R>() yields in the current state.
Yielded(R) == Collect(RequiredComponentIds(Registry, R), 0)

\* C9: after remove::<T>(e) has succeeded on a live e that held a T,
\* get::<T>(e) returns Ok(None), no view whose type list names T yields e,
\* e is still live, and every view over types e still holds yields e.
C9_RemoveDropsComponent ==
    [][(ret'.op = "remove" /\ ret'.tag = "Unit" /\ ret'.had) =>
          \A e \in {ret'.e}, T \in {ret'.t} :
              /\ GetResult(T, e)' = None
              /\ AssertEntityValid(e)'
              /\ \A R \in TypeLists :
                    IF T \in Range(R)
                    THEN e \notin Yielded(R)'
                    ELSE (/\ Range(R) \subseteq DOMAIN TYPE_ID_MAP
                          /\ {TYPE_ID_MAP[U] : U \in Range(R)}
                                \subseteq entities[e.index + 1].components)
                            => e \in Yielded(R)']_vars

\* A component was removed from an entity that still holds another one.
C9_Witness ==
    /\ ret.op = "remove" /\ ret.tag = "Unit" /\ ret.had
    /\ entities[ret.e.index + 1].components # {}
    /\ Len(entities) = 2

\* C10: creating n entities in an empty scene, destroying m < n of the
\* live ones and creating m more leaves n slots and an empty free list.
C10_SlotReuse ==
    ReuseDone => (Len(entities) = scen.n /\ free_list = << >>)

\* The scenario has ended with two or more slots recycled.
C10_Witness ==
    ReuseDone /\ scen.m >= 2 /\ scen.n = scen.m + 1

\* C11: under every interleaving of get_type_id calls from several
\* threads, racing first calls for one type included, the calls for one
\* type all return the same id, the calls for two types return two ids,
\* and the id of a type is the one the map holds for it ever after.
C11_OneIdPerType ==
    /\ \A x, y \in returned : (x[1] = y[1]) <=> (x[2] = y[2])
    /\ \A x \in returned : x[1] \in DOMAIN TYPE_ID_MAP /\ TYPE_ID_MAP[x[1]] = x[2]
    /\ \A T, U \in DOMAIN TYPE_ID_MAP : T # U => TYPE_ID_MAP[T] # TYPE_ID_MAP[U]

\* A thread whose call began before its type had an id found the id that
\* a racing thread allocated and has returned; the other type has an id
\* too.
C11_Witness ==
    /\ DOMAIN TYPE_ID_MAP = Types
    /\ \E th \in Threads :
          /\ threads[th].pc = "return"
          /\ threads[th].began_absent
          /\ ~threads[th].allocated
          /\ << threads[th].type_id, threads[th].id >> \in returned

\* The handles, in order, that a fresh view over the ids `required` yields
\* when it is iterated from slot `index` to its end.
RECURSIVE CollectSeq(_, _)
CollectSeq(required, index) ==
    LET res == SceneViewNext(entities,
                             [required_components |-> required, index |-> index])
    IN IF res.tag = "None" THEN << >>
       ELSE << res.item >> \o CollectSeq(required, res.index)

\* R1 and R2 list the same types the same number of times.
IsPermutation(R1, R2) ==
    /\ Len(R1) = Len(R2)
    /\ \A T \in Types :
          Cardinality({i \in DOMAIN R1 : R1[i] = T})
              = Cardinality({i \in DOMAIN R2 : R2[i] = T})

\* C12: in every reachable scene state, view::<R1>() and then view::<R2>()
\* with R2 a permutation of R1 yield the same sequence of handles.
C12_ViewOrderIrrelevant ==
    \A R1, R2 \in TypeLists :
        IsPermutation(R1, R2) =>
            CollectSeq(RequiredComponentIds(Registry, R1), 0)
                = CollectSeq(RequiredComponentIds(RegAfterRequired(Registry, R1), R2), 0)

\* A view over two types has run to its end and yielded an entity, while
\* another live entity holds only one of the two types.
C12_Witness ==
    /\ \E k \in ViewIds :
          /\ views[k].alive /\ views[k].done
          /\ Len(views[k].required_components) = 2
          /\ views[k].required_components[1] # views[k].required_components[2]
          /\ views[k].out # << >>
    /\ \E i \in 1 .. Len(entities) :
          IsValid(entities[i].entity) /\ Cardinality(entities[i].components) = 1
    /\ CollectSeq(RequiredComponentIds(Registry, << 2, 1 >>), 0) # << >>

\* C13: after a successful assign_default::<T>(e) on a live e, whether or
\* not e held a T before, get::<T>(e) returns T's default value and T's id
\* is in e's component-id set.
C13_AssignDefaultThenGet ==
    (ret.op = "assign_default" /\ ret.tag = "Some") =>
        /\ GetResult(ret.t, ret.e) = Some(DefaultValue)
        /\ TYPE_ID_MAP[ret.t] \in entities[ret.e.index + 1].components

\* C14: destroy_entity with a handle create_entity once returned that is
\* no longer live (destroyed already, or a stale generation of a recycled
\* slot) leaves every entity record, component-id set and generation and
\* the scene free list as they were.
C14_DestroyRevalidates ==
    [][(ret'.op = "destroy_entity" /\ ret'.e \in issued
            /\ ~AssertEntityValid(ret'.e)) =>
          UNCHANGED << entities, free_list >>]_vars

\* C15: in every reachable state, for every live handle e and every type
\* T, get::<T>(e) returns a value exactly when T's id is in e's
\* component-id set; so a handle create_entity has just returned, a
\* recycled slot included, has get return Ok(None) for every T.
C15_GetIffComponentId ==
    \A e \in issued, T \in PoolTypes :
        AssertEntityValid(e) =>
            /\ (GetResult(T, e).tag = "Some")
                  <=> (/\ T \in DOMAIN TYPE_ID_MAP
                       /\ TYPE_ID_MAP[T] \in entities[e.index + 1].components)
            /\ (ret.op = "create_entity" /\ ret.e = e) => GetResult(T, e) = None

\* C16: after any sequence of Scene operations, destroy_entity called
\* twice with one handle included, every handle create_entity returns
\* differs from every handle it returned before on the scene.
C16_HandleUnique ==
    [][ret'.op = "create_entity" => ret'.e \notin issued]_vars

\* C17: in every reachable state a slot's component-id set is non-empty
\* only if the slot's stored handle is live; destroy_entity clears the set
\* and bumps the generation in one step, and assign and assign_default add
\* an id only to the set of a live slot.
C17_SetNonEmptyOnlyIfLive ==
    /\ [](\A i \in 1 .. Len(entities) :
              entities[i].components # {} => IsValid(entities[i].entity))
    /\ [][(ret'.op = "destroy_entity" /\ ret'.tag = "Unit") =>
              /\ entities'[ret'.e.index + 1].components = {}
              /\ ~IsValid(entities'[ret'.e.index + 1].entity)
              /\ entities'[ret'.e.index + 1].entity.version
                    = entities[ret'.e.index + 1].entity.version + 1]_vars
    /\ [][ret'.op \in {"assign", "assign_default"} =>
              \A i \in 1 .. Len(entities) :
                  (entities'[i].components # entities[i].components)
                      => (IsValid(entities[i].entity) /\ entities[i].entity = ret'.e)]_vars

\* destroy_entity has just destroyed a live entity that held a component:
\* the slot is invalid, its pool entry is still there.
C17_Witness ==
    /\ ret.op = "destroy_entity" /\ ret.tag = "Unit"
    /\ ret.e \in destroyed
    /\ entities[ret.e.index + 1].entity = Invalidate(ret.e)
    /\ \E id \in DOMAIN pools : ret.e.index \in DOMAIN pools[id].entities

\* C18: destroy_entity changes only the record of the slot it is given
\* and the scene free list: every pool (mapping, dense values, free list)
\* and every other slot's record and component-id set stay as they were.
C18_DestroyDeferredCleanup ==
    [][ret'.op = "destroy_entity" =>
          /\ UNCHANGED << pools, TYPE_ID_COUNTER, TYPE_ID_MAP >>
          /\ Len(entities') = Len(entities)
          /\ \A i \in 0 .. Len(entities) - 1 :
                i # ret'.e.index => entities'[i + 1] = entities[i + 1]]_vars

\* A live entity holding a component has just been destroyed while the
\* other slot is live and holds a component too.
C18_Witness ==
    /\ ret.op = "destroy_entity" /\ ret.tag = "Unit"
    /\ entities[ret.e.index + 1].entity = Invalidate(ret.e)
    /\ \E id \in DOMAIN pools : ret.e.index \in DOMAIN pools[id].entities
    /\ \E i \in 1 .. Len(entities) :
          /\ i # ret.e.index + 1
          /\ IsValid(entities[i].entity)
          /\ entities[i].components # {}

\* C19: Pool::assign, Pool::assign_default and Pool::free applied to an
\* entity with slot index a leave, for every other slot index b, get(b)
\* and b's slot-to-dense mapping as they were; free pushes the dense slot
\* on the pool free list and moves no dense value.
C19_PoolOthersUndisturbed ==
    [][ret'.op \in {"Pool::assign", "Pool::assign_default", "Pool::free"} =>
          /\ \A b \in 0 .. MaxIndex :
                b # ret'.e.index =>
                    /\ PoolGet(the_pool', EntityNew(b)) = PoolGet(the_pool, EntityNew(b))
                    /\ (b \in DOMAIN the_pool'.entities) <=> (b \in DOMAIN the_pool.entities)
                    /\ b \in DOMAIN the_pool.entities
                          => the_pool'.entities[b] = the_pool.entities[b]
          /\ (ret'.op = "Pool::free" /\ ret'.had) =>
                /\ the_pool'.components = the_pool.components
                /\ the_pool'.free_list
                      = Append(the_pool.free_list, the_pool.entities[ret'.e.index])]_vars

\* free has just released a dense slot while another entity's value sits
\* in a dense slot behind it.
C19_Witness ==
    /\ ret.op = "Pool::free" /\ ret.had
    /\ the_pool.free_list # << >>
    /\ \E b \in DOMAIN the_pool.entities :
          the_pool.entities[b] > Last(the_pool.free_list)

\* C20: a view is finite and forward-only.  A next() call never moves a
\* cursor back or past the table, yields only a slot at or behind the
\* cursor and leaves the cursor just behind it, so no slot is visited
\* twice and at most Len(entities) slots are visited; once next() has
\* returned None it returns None again; a view starts at slot 0; and a
\* call on one view leaves every other view's cursor alone.
C20_ViewForwardOnly ==
    /\ [](\A k \in DOMAIN views :
              views[k].alive =>
                  /\ Len(views[k].out) <= views[k].index
                  /\ views[k].index <= Len(entities)
                  /\ \A j \in 1 .. Len(views[k].out) - 1 :
                        views[k].out[j].index < views[k].out[j + 1].index
                  /\ views[k].done => SceneViewNext(entities, views[k]).tag = "None")
    /\ [][ret'.op = "next" =>
              /\ \A k \in DOMAIN views :
                    /\ views'[k].index >= views[k].index
                    /\ views[k].done => views'[k] = views[k]
                    /\ Len(views'[k].out) > Len(views[k].out) =>
                          /\ Len(views'[k].out) = Len(views[k].out) + 1
                          /\ Last(views'[k].out).index >= views[k].index
                          /\ Last(views'[k].out).index = views'[k].index - 1
              /\ \A j, k \in DOMAIN views :
                    (views'[j] # views[j] /\ views'[k] # views[k]) => j = k]_vars
    /\ [][ret'.op = "view" =>
              /\ \A k \in DOMAIN views :
                    views'[k] # views[k] =>
                        /\ views'[k].alive
                        /\ views'[k].index = 0
                        /\ views'[k].out = << >>
                        /\ ~views'[k].done
              /\ \A j, k \in DOMAIN views :
                    (views'[j] # views[j] /\ views'[k] # views[k]) => j = k]_vars

\* Over two slots, one view has run to its end and yielded something while
\* a second view, obtained from another view() call, is in the middle of
\* the table.
C20_Witness ==
    /\ Len(entities) = 2
    /\ \E j, k \in DOMAIN views :
          /\ j # k
          /\ views[j].alive /\ views[j].done /\ views[j].out # << >>
          /\ views[k].alive /\ ~views[k].done /\ views[k].index = 1

\* C21: after any sequence of assign, assign_default and free on a pool
\* the slot-to-dense mapping is injective, every mapped dense index is
\* below the dense array length, the pool free list has no duplicates and
\* shares no index with the mapping, and the dense array length is the
\* number of mapped entries plus the free-list length; so an insertion
\* with a non-empty free list reuses a freed dense slot and the dense
\* array does not grow.
C21_PoolStructure ==
    /\ [](LET p == the_pool
              mapped == {p.entities[x] : x \in DOMAIN p.entities}
          IN /\ \A x, y \in DOMAIN p.entities :
                   p.entities[x] = p.entities[y] => x = y
             /\ \A d \in mapped : d >= 0 /\ d < Len(p.components)
             /\ \A i, j \in 1 .. Len(p.free_list) :
                   p.free_list[i] = p.free_list[j] => i = j
             /\ \A i \in 1 .. Len(p.free_list) :
                   /\ p.free_list[i] \notin mapped
                   /\ p.free_list[i] >= 0 /\ p.free_list[i] < Len(p.components)
             /\ Len(p.components)
                   = Cardinality(DOMAIN p.entities) + Len(p.free_list))
    /\ [][(ret'.op \in {"Pool::assign", "Pool::assign_default"} /\ ~ret'.had
              /\ the_pool.free_list # << >>) =>
              /\ Len(the_pool'.components) = Len(the_pool.components)
              /\ the_pool'.entities[ret'.e.index] = Last(the_pool.free_list)
              /\ the_pool'.free_list = Front(the_pool.free_list)]_vars

\* An insertion has just reused a freed dense slot while another freed
\* slot is still on the free list and a third slot is mapped.
C21_Witness ==
    /\ ret.op \in {"Pool::assign", "Pool::assign_default"} /\ ~ret.had
    /\ the_pool.free_list # << >>
    /\ Cardinality(DOMAIN the_pool.entities) = 2
    /\ Len(the_pool.components) = 3

====
